---- MODULE Spec2Model ----
(***************************************************************************)
(* Model of the rental-listing pipeline: scraper.py (SuumoScraper),        *)
(* database.py (PropertyDatabase), analyzer.py (PropertyAnalyzer) and      *)
(* main.py (the run entry point).                                          *)
(*                                                                         *)
(* Texts are sequences of characters.  The two Japanese characters the     *)
(* scraper looks for are written "man" (U+4E07, the ten-thousand marker)   *)
(* and "yen" (U+5186, the currency suffix).                                *)
(*                                                                         *)
(* Python floats are modelled as exact decimals m * 10^e, kept normalised  *)
(* (m has no trailing zero, zero is m = 0, e = 0), so equality of values   *)
(* is equality of records.                                                 *)
(***************************************************************************)
EXTENDS Integers, Sequences, FiniteSets, TLC

VARIABLES
    \* _extract_number applied to one text
    text, result, ppc,
    \* scrape_area: call arguments, loop positions, accumulated output
    area_name, pages, page, spc, cassettos_left, name, rooms_left,
    properties, returned, trace, outcomes,
    \* scrape_area, history: the rooms processed so far whose fields were all
    \* well-formed, and what the current page has seen of a room without rent
    \* element or with a raising extraction ("none", then "skipped", then
    \* "recorded_after" once a later room of the page has given a record)
    valid_rooms, sibling,
    \* PropertyDatabase: the properties table and the last call's answer
    rows, db_ret, saved_since_clear,
    \* verify_hypothesis: position and answer
    hpc, hyp,
    \* main: position, the statements executed so far, the records collected
    mainpc, main_log, main_properties,
    \* scrape_multiple_areas: arguments, position, the scrape_area calls made
    \* so far with their results, accumulated output
    areas, multi_pages, mpc, calls, all_properties,
    \* one room of a cassette: its rent and fee elements, position, outcome
    room_price, room_admin, rpc, room_out

parseVars == <<text, result, ppc>>
scrapeVars == <<area_name, pages, page, spc, cassettos_left, name, rooms_left,
                properties, returned, trace, outcomes, valid_rooms, sibling>>
dbVars == <<rows, db_ret, saved_since_clear>>
hypVars == <<hpc, hyp>>
mainVars == <<mainpc, main_log, main_properties>>
multiVars == <<areas, multi_pages, mpc, calls, all_properties>>
roomVars == <<room_price, room_admin, rpc, room_out>>
restVars == <<mainVars, multiVars, roomVars>>
vars == <<parseVars, scrapeVars, dbVars, hypVars, restVars>>

(***************************************************************************)
(* Bounds of the model.                                                    *)
(***************************************************************************)
\* longest text over Alphabet given to _extract_number
MaxLen == 4
\* largest page count scrape_area is called with
MaxPages == 2
\* most listing cassettes on one result page
MaxCassettes == 1
\* most rooms (tbody blocks) in one cassette
MaxRooms == 2
\* most rooms of one call's pages that yield a record
MaxRecords == 2
\* most rows the properties table holds
MaxRows == 2
\* most records one save_properties call is given
MaxBatch == 2
\* most rows of the table verify_hypothesis reads
MaxHypRows == 4
\* most rows an earlier run has left in the table when main starts
MaxOldRows == 1
\* most rows of the table get_layout_stats reads
MaxStatRows == 6
\* most areas scrape_multiple_areas is given
MaxAreas == 2
\* longest free text over Alphabet in the fee element of a room
MaxFeeLen == 2

(***************************************************************************)
(* Texts.                                                                  *)
(***************************************************************************)
Digits == {"0", "1", "5"}
Alphabet == Digits \cup {".", ",", "man", "yen", "-"}

SeqsUpTo(S, n) == UNION {[1..k -> S] : k \in 0..n}

\* realistic field texts of the listing site and of price tags in general
SampleTexts ==
    { <<"1", ".", "5", "man", "yen">>,
      <<"1", "5", "man", "yen">>,
      <<"5", "0", "0", "0", "yen">>,
      <<"1", "5", ",", "0", "0", "0", "yen">>,
      <<"1", ",", "5", "0", "0", "man", "yen">>,
      <<"1", "man", "5", "0", "0", "0", "yen">> }

Texts == SeqsUpTo(Alphabet, MaxLen) \cup SampleTexts

IsNumCh(c) == c \in Digits \cup {"."}

Contains(s, c) == \E i \in 1..Len(s) : s[i] = c

\* str.replace(c, ''): every occurrence of c removed
Remove(s, c) == SelectSeq(s, LAMBDA x : x # c)

DigitVal(c) == CASE c = "0" -> 0 [] c = "1" -> 1 [] c = "5" -> 5

RECURSIVE DigitsToInt(_)
DigitsToInt(ds) ==
    IF ds = <<>> THEN 0
    ELSE 10 * DigitsToInt(SubSeq(ds, 1, Len(ds) - 1)) + DigitVal(ds[Len(ds)])

(***************************************************************************)
(* Decimals.                                                               *)
(***************************************************************************)
RECURSIVE Pow10(_)
Pow10(n) == IF n = 0 THEN 1 ELSE 10 * Pow10(n - 1)

RECURSIVE Norm(_, _)
Norm(m, e) ==
    IF m = 0 THEN [m |-> 0, e |-> 0]
    ELSE IF m % 10 = 0 THEN Norm(m \div 10, e + 1)
    ELSE [m |-> m, e |-> e]

Zero == Norm(0, 0)

\* a + b
DecAdd(a, b) ==
    LET e == IF a.e < b.e THEN a.e ELSE b.e
    IN  Norm(a.m * Pow10(a.e - e) + b.m * Pow10(b.e - e), e)

\* a < n for a natural number n >= 1 written as 10^k
DecLessPow10(a, k) ==
    IF a.m = 0 THEN TRUE
    ELSE IF a.e >= k THEN FALSE
    ELSE a.m < Pow10(k - a.e)

(***************************************************************************)
(* float(s) for a string s of digits and dots, as the regular expression   *)
(* [\d.]+ delivers it: a value when s has at least one digit and at most   *)
(* one dot, ValueError otherwise.                                          *)
(***************************************************************************)
FloatOk(s) ==
    /\ Cardinality({i \in 1..Len(s) : s[i] = "."}) <= 1
    /\ \E i \in 1..Len(s) : s[i] \in Digits

FloatVal(s) ==
    LET frac == IF Contains(s, ".")
                THEN Len(s) - (CHOOSE i \in 1..Len(s) : s[i] = ".")
                ELSE 0
    IN  Norm(DigitsToInt(Remove(s, ".")), -frac)

\* what _extract_number hands back: a float, None, or a raised ValueError
Float(d) == [kind |-> "float", val |-> d]
None == [kind |-> "None", val |-> Zero]
ValueError == [kind |-> "ValueError", val |-> Zero]

ToFloat(s) == IF FloatOk(s) THEN Float(FloatVal(s)) ELSE ValueError

\* x * 10000 for the answer of float()
Times10000(r) == IF r.kind = "float" THEN Float(Norm(r.val.m, r.val.e + 4)) ELSE r

\* the last position of the maximal run of digits and dots that starts at i
RunEnd(s, i) ==
    CHOOSE j \in i..Len(s) :
        /\ \A k \in i..j : IsNumCh(s[k])
        /\ (j = Len(s) \/ ~IsNumCh(s[j + 1]))

\* the first maximal run of digits and dots: re.findall(r'[\d.]+', s)[0]
HasRun(s) == \E i \in 1..Len(s) : IsNumCh(s[i])
FirstRun(s) ==
    LET i == CHOOSE k \in 1..Len(s) :
                 IsNumCh(s[k]) /\ \A h \in 1..(k - 1) : ~IsNumCh(s[h])
    IN  SubSeq(s, i, RunEnd(s, i))

\* re.search(r'([\d.]+)man', s): the start positions at which it matches
ManStarts(s) ==
    {i \in 1..Len(s) :
        /\ IsNumCh(s[i])
        /\ RunEnd(s, i) < Len(s)
        /\ s[RunEnd(s, i) + 1] = "man"}

ManMatches(s) == ManStarts(s) # {}

\* match.group(1) of the leftmost match
ManGroup(s) ==
    LET i == CHOOSE k \in ManStarts(s) : \A h \in ManStarts(s) : k <= h
    IN  SubSeq(s, i, RunEnd(s, i))

\* scraper.py 163-169: the text without ',' and 'yen', its first number
plain_number(s) ==
    LET t == Remove(Remove(s, ","), "yen")
    IN  IF HasRun(t) THEN ToFloat(FirstRun(t)) ELSE None

\* SuumoScraper._extract_number
extract_number(s) ==
    IF Contains(s, "man") /\ ManMatches(s)
    THEN Times10000(ToFloat(ManGroup(s)))
    ELSE plain_number(s)

(***************************************************************************)
(* Idle values of the parts a specification does not exercise.             *)
(***************************************************************************)
NoText == <<"NoText">>
NoResult == [kind |-> "pending", val |-> Zero]

ParseIdle == text = NoText /\ result = NoResult /\ ppc = "idle"

(***************************************************************************)
(* SpecParse: _extract_number on every text of Texts.                      *)
(***************************************************************************)
InitParse ==
    /\ text \in Texts
    /\ result = NoResult
    /\ ppc = "call"

ExtractNumber ==
    /\ ppc = "call"
    /\ result' = extract_number(text)
    /\ ppc' = "done"
    /\ UNCHANGED text

(***************************************************************************)
(* scrape_area.                                                            *)
(***************************************************************************)
\* SuumoScraper.AREA_CODES
AREA_CODES == {"Shinjuku", "Setagaya"}

\* area names a caller may pass: the supported ones and one that is not
AreaNames == AREA_CODES \cup {"Shibuya"}

\* scraper.py 43-45: AREA_CODES.get(area_name) found a code
LookupAlwaysFinds(a) == TRUE
target_code_found(a) == a \in AREA_CODES

\* find() found no such element
NoTag == <<"NoTag">>

\* the title element of a cassette: absent, present with empty text, present
TitleTags == {NoTag, <<>>, <<"A">>}

\* the rent element of a room
PriceTags ==
    { NoTag,
      <<"1", "man", "yen">>,
      <<"1", "0", ",", "0", "0", "0", "yen">>,
      <<"0", ".", "5", "man", "yen">>,
      <<"5", "0", "0", "0", "yen">>,
      <<"-">>,
      <<"1", ".", "5", ".", "man">> }

\* the administration-fee element of a room
AdminTags ==
    { NoTag,
      <<"-">>,
      <<"5", "0", "0", "0", "yen">>,
      <<"5", ",", "0", "0", "0", "yen">>,
      <<"0", "yen">>,
      <<"yen">>,
      <<".">> }

\* scraper.py 107: price is None or price < 10000 is false
RentNoFloor(price) == price.kind = "float"
RentAccepted(price) == price.kind = "float" /\ ~DecLessPow10(price.val, 4)

\* the fee elements a single room is tried with: the listed ones and every
\* short text
RoomAdminTags == AdminTags \cup SeqsUpTo(Alphabet, MaxFeeLen)

\* scraper.py 105, 116: self._extract_number on the text of a room's
\* element; the answers for the listed texts are computed once
ListedNumbers == [t \in PriceTags \cup AdminTags |-> extract_number(t)]
number_in(t) ==
    IF t \in PriceTags \cup AdminTags THEN ListedNumbers[t] ELSE extract_number(t)

\* scraper.py 112-116: the administration fee of a room, or a raised error
admin_fee_of(admin_fee_tag) ==
    IF admin_fee_tag = NoTag \/ admin_fee_tag = <<"-">> THEN Float(Zero)
    ELSE LET r == number_in(admin_fee_tag)
         IN  IF r.kind = "None" THEN Float(Zero) ELSE r

Skip == [kind |-> "skip"]
Raise == [kind |-> "raise"]

\* scraper.py 126-135: the appended dict
Record(nm, price, admin_fee, area) ==
    [name |-> nm, address |-> "addr", rent |-> price, admin_fee |-> admin_fee,
     total |-> DecAdd(price, admin_fee), layout |-> "1K", area_size |-> "25m2",
     area_name |-> area]

\* scraper.py 99-135: one room of a cassette: a record, a skip (continue),
\* or an exception raised inside the room's try block
extract_room(nm, price_tag, admin_fee_tag, area) ==
    IF price_tag = NoTag THEN Skip
    ELSE LET price == number_in(price_tag)
         IN  IF price.kind = "ValueError" THEN Raise
             ELSE IF ~RentAccepted(price) THEN Skip
             ELSE LET fee == admin_fee_of(admin_fee_tag)
                  IN  IF fee.kind = "ValueError" THEN Raise
                      ELSE [kind |-> "record",
                            rec |-> Record(nm, price.val, fee.val, area)]

\* scraper.py 137-138: except Exception: continue
RoomRaisePropagates(r) == r
room_handler(r) == IF r.kind = "raise" THEN Skip ELSE r

\* scraper.py 61: time.sleep(3)
SleepSeconds == 3

\* what the call did, in order: a delay of secs seconds, or a request
Event(ev, p, secs) == [ev |-> ev, page |-> p, secs |-> secs]

\* where "continue" of the page loop takes control: the loop head, and
\* the page it takes it to
ContinueSkipsDelay == "request"
ContinueTo == "page"

BreakAfterFailure(p, n) == n + 1
NextPage(p, n) == p + 1

ScrapeIdle ==
    /\ area_name = "" /\ pages = 0 /\ page = 0 /\ spc = "idle"
    /\ cassettos_left = 0 /\ name = <<>> /\ rooms_left = 0
    /\ properties = <<>> /\ returned = <<>> /\ trace = <<>> /\ outcomes = <<>>
    /\ valid_rooms = 0 /\ sibling = "none"

\* scraper.py 27-50: the call, the area look-up, the early return
ScrapeArea(a, n) ==
    /\ spc = "idle"
    /\ area_name' = a
    /\ pages' = n
    /\ properties' = <<>>
    /\ IF ~target_code_found(a)
       THEN /\ returned' = <<>>
            /\ spc' = "returned"
            /\ page' = 0
       ELSE /\ returned' = returned
            /\ spc' = "page"
            /\ page' = 1
    /\ UNCHANGED <<cassettos_left, name, rooms_left, trace, outcomes,
                   valid_rooms, sibling>>

\* scraper.py 52-61: the loop head of a page and its time.sleep(3)
Sleep ==
    /\ spc = "page"
    /\ page <= pages
    /\ trace' = Append(trace, Event("sleep", page, SleepSeconds))
    /\ spc' = "request"
    /\ sibling' = "none"
    /\ UNCHANGED <<area_name, pages, page, cassettos_left, name, rooms_left,
                   properties, returned, outcomes, valid_rooms>>

\* scraper.py 63-68, 145-147: requests.get fails, or answers another status
FetchFailures == {"non200", "network_error", "timeout"}

RequestFails(o) ==
    /\ spc = "request"
    /\ o \in FetchFailures
    /\ trace' = Append(trace, Event("request", page, 0))
    /\ outcomes' = Append(outcomes, o)
    /\ page' = NextPage(page, pages)
    /\ spc' = ContinueTo
    /\ UNCHANGED <<area_name, pages, cassettos_left, name, rooms_left,
                   properties, returned, valid_rooms, sibling>>

\* scraper.py 64-80: status 200, the page parsed, k cassettes found
RequestOk(k) ==
    /\ spc = "request"
    /\ trace' = Append(trace, Event("request", page, 0))
    /\ IF k = 0
       THEN /\ outcomes' = Append(outcomes, "empty")
            /\ page' = NextPage(page, pages)
            /\ spc' = ContinueTo
            /\ cassettos_left' = 0
       ELSE /\ outcomes' = Append(outcomes, "ok")
            /\ page' = page
            /\ spc' = "cassette"
            /\ cassettos_left' = k
    /\ UNCHANGED <<area_name, pages, name, rooms_left, properties, returned,
                   valid_rooms, sibling>>

\* scraper.py 82-95, 143: one cassette: its title, its rooms found; after
\* the last cassette of the page the page loop goes on
Cassette(title, k) ==
    /\ spc = "cassette"
    /\ IF title = NoTag \/ k = 0
       THEN /\ cassettos_left' = cassettos_left - 1
            /\ rooms_left' = 0
            /\ name' = name
            /\ IF cassettos_left = 1
               THEN page' = page + 1 /\ spc' = "page"
               ELSE page' = page /\ spc' = "cassette"
       ELSE /\ name' = title
            /\ rooms_left' = k
            /\ spc' = "room"
            /\ UNCHANGED <<cassettos_left, page>>
    /\ UNCHANGED <<area_name, pages, properties, returned, trace, outcomes,
                   valid_rooms, sibling>>

\* room elements written the way the site writes them: a rent of at least
\* 10,000 yen, and a fee that is absent, a dash, an amount or a bare unit
WellFormedRoom(price_tag, admin_fee_tag) ==
    /\ price_tag \in {<<"1", "man", "yen">>, <<"1", "0", ",", "0", "0", "0", "yen">>}
    /\ admin_fee_tag \in {NoTag, <<"-">>, <<"5", "0", "0", "0", "yen">>,
                          <<"5", ",", "0", "0", "0", "yen">>, <<"0", "yen">>, <<"yen">>}

\* a room without rent element, or one whose texts make float() raise
MissingOrRaisingRoom(price_tag, admin_fee_tag) ==
    \/ price_tag = NoTag
    \/ price_tag = <<"1", ".", "5", ".", "man">>
    \/ /\ price_tag \in {<<"1", "man", "yen">>, <<"1", "0", ",", "0", "0", "0", "yen">>}
       /\ admin_fee_tag = <<".">>

\* scraper.py 97-138: one room of the current cassette
Room(price_tag, admin_fee_tag) ==
    /\ spc = "room"
    /\ valid_rooms' = IF WellFormedRoom(price_tag, admin_fee_tag)
                       THEN valid_rooms + 1 ELSE valid_rooms
    /\ sibling' = IF MissingOrRaisingRoom(price_tag, admin_fee_tag) /\ sibling = "none"
                   THEN "skipped"
                   ELSE IF WellFormedRoom(price_tag, admin_fee_tag) /\ sibling = "skipped"
                   THEN "recorded_after"
                   ELSE sibling
    /\ \E r \in {room_handler(extract_room(name, price_tag, admin_fee_tag, area_name))} :
           /\ r.kind = "record" => Len(properties) < MaxRecords
           /\ IF r.kind = "raise"
              THEN /\ spc' = "raised"
                   /\ UNCHANGED <<properties, rooms_left, cassettos_left, page>>
              ELSE /\ properties' = IF r.kind = "record"
                                     THEN Append(properties, r.rec)
                                     ELSE properties
                   /\ rooms_left' = rooms_left - 1
                   /\ IF rooms_left > 1
                      THEN spc' = "room" /\ UNCHANGED <<cassettos_left, page>>
                      ELSE /\ cassettos_left' = cassettos_left - 1
                           /\ IF cassettos_left = 1
                              THEN page' = page + 1 /\ spc' = "page"
                              ELSE page' = page /\ spc' = "cassette"
    /\ UNCHANGED <<area_name, pages, name, returned, trace, outcomes>>

\* scraper.py 149: return properties
Return ==
    /\ spc = "page"
    /\ page > pages
    /\ returned' = properties
    /\ spc' = "returned"
    /\ UNCHANGED <<area_name, pages, page, cassettos_left, name, rooms_left,
                   properties, trace, outcomes, valid_rooms, sibling>>

\* scraper.py 97-138: the body of the room loop on one room of a cassette
\* named "A" of Shinjuku
ExtractRoom ==
    /\ rpc = "call"
    /\ room_out' = room_handler(extract_room(<<"A">>, room_price, room_admin, "Shinjuku"))
    /\ rpc' = "done"
    /\ UNCHANGED <<room_price, room_admin>>

(***************************************************************************)
(* scrape_multiple_areas.  A call of scrape_area is one step here: it      *)
(* returns some list of records of its area (its own steps are above).     *)
(***************************************************************************)
\* the records a room of each supported area can give
AreaRecords ==
    [a \in AREA_CODES |->
        {r.rec : r \in {x \in {extract_room(<<"A">>, pt, at, a) :
                                  pt \in PriceTags, at \in AdminTags} :
                            x.kind = "record"}}]

\* the lists a call of scrape_area can return, whatever the area
AnyAreaResults == SeqsUpTo(UNION {AreaRecords[a] : a \in AREA_CODES}, MaxRecords)

\* scraper.py 27-149: the lists scrape_area(a, n) can return
ScrapeAreaResults(a, n) ==
    IF ~target_code_found(a) \/ n = 0 THEN {<<>>}
    ELSE SeqsUpTo(AreaRecords[a], MaxRecords)

Call(a, n, props) == [area_name |-> a, pages |-> n, props |-> props]

\* scraper.py 192: where the loop over the areas goes after an area
StopAtEmptyArea(props) == IF props = <<>> THEN "summary" ELSE "loop"
AfterArea(props) == "loop"

\* scraper.py 192-199: one iteration: scrape_area for the next listed area,
\* its result appended when it is not empty
MultiArea(props) ==
    /\ mpc = "loop"
    /\ Len(calls) < Len(areas)
    /\ props \in ScrapeAreaResults(areas[Len(calls) + 1], multi_pages)
    /\ calls' = Append(calls, Call(areas[Len(calls) + 1], multi_pages, props))
    /\ all_properties' = IF props # <<>> THEN all_properties \o props
                                         ELSE all_properties
    /\ mpc' = IF Len(calls) + 1 = Len(areas) THEN "summary" ELSE AfterArea(props)
    /\ UNCHANGED <<areas, multi_pages>>

\* scraper.py 201-214: the summary and return all_properties
MultiReturn ==
    /\ mpc = "summary"
    /\ mpc' = "returned"
    /\ UNCHANGED <<areas, multi_pages, calls, all_properties>>

(***************************************************************************)
(* PropertyDatabase.  A row keeps the columns the queries read; totals are *)
(* whole numbers of 10,000 yen.                                            *)
(***************************************************************************)
Row(a, t, l) == [area_name |-> a, total |-> t, layout |-> l]

DbTotals == {10, 15}
DbLayouts == {"", "1K"}
DbRecords == {Row(a, t, l) : a \in AREA_CODES, t \in DbTotals, l \in DbLayouts}

\* an optional argument: omitted (Python's None default) or given
Omitted(v) == [given |-> FALSE, v |-> v]
Given(v) == [given |-> TRUE, v |-> v]

AreaArgs == {Omitted(""), Given(""), Given("Shinjuku")}
LayoutArgs == {Omitted(""), Given(""), Given("1K")}
RentArgs == {Omitted(0), Given(0), Given(12)}

\* Python truthiness of an optional text / number argument: "if area:"
IsGiven(arg) == arg.given
TruthyStr(arg) == arg.given /\ arg.v # ""
TruthyNum(arg) == arg.given /\ arg.v # 0

\* database.py 128-148: the WHERE clause built from the arguments
where_clause(area, min_rent, max_rent, layout, r) ==
    /\ (TruthyStr(area) => r.area_name = area.v)
    /\ (TruthyNum(min_rent) => r.total >= min_rent.v)
    /\ (TruthyNum(max_rent) => r.total <= max_rent.v)
    /\ (TruthyStr(layout) => r.layout = layout.v)

NoArgs == [area |-> Omitted(""), min_rent |-> Omitted(0),
           max_rent |-> Omitted(0), layout |-> Omitted("")]

DbRet(op, args, rs, n) == [op |-> op, args |-> args, rs |-> rs, n |-> n]

DbIdle ==
    /\ rows = <<>>
    /\ db_ret = DbRet("none", NoArgs, <<>>, 0)
    /\ saved_since_clear = 0

\* database.py 71-81: one INSERT per record, in order
InsertIgnoringDuplicates(table, records) ==
    table \o SelectSeq(records, LAMBDA r : \A i \in 1..Len(table) : table[i] # r)
Insert(table, records) == table \o records

\* PropertyDatabase.save_properties
SaveProperties(records) ==
    /\ Len(rows) + Len(records) <= MaxRows
    /\ rows' = Insert(rows, records)
    /\ db_ret' = DbRet("save_properties", NoArgs, records, Len(records))
    /\ saved_since_clear' = saved_since_clear + Len(records)

\* database.py 200: DELETE FROM properties
Delete(table) == <<>>

\* PropertyDatabase.clear_all
ClearAll ==
    /\ rows' = Delete(rows)
    /\ db_ret' = DbRet("clear_all", NoArgs, <<>>, 0)
    /\ saved_since_clear' = 0

\* database.py 207: SELECT COUNT(*) FROM properties
Count(table) == Len(table)

\* PropertyDatabase.get_count
GetCount ==
    /\ db_ret' = DbRet("get_count", NoArgs, <<>>, Count(rows))
    /\ UNCHANGED <<rows, saved_since_clear>>

\* database.py 94: SELECT * FROM properties
SelectAll(table) == table

\* PropertyDatabase.get_all_properties
GetAllProperties ==
    /\ db_ret' = DbRet("get_all_properties", NoArgs, SelectAll(rows), 0)
    /\ UNCHANGED <<rows, saved_since_clear>>

\* PropertyDatabase.get_properties_by_conditions
GetPropertiesByConditions(area, min_rent, max_rent, layout) ==
    /\ db_ret' = DbRet("get_properties_by_conditions",
                       [area |-> area, min_rent |-> min_rent,
                        max_rent |-> max_rent, layout |-> layout],
                       SelectSeq(rows, LAMBDA r :
                           where_clause(area, min_rent, max_rent, layout, r)),
                       0)
    /\ UNCHANGED <<rows, saved_since_clear>>

(***************************************************************************)
(* PropertyAnalyzer.verify_hypothesis.  Means, variances and the squared   *)
(* t statistic are exact fractions num / den; nan marks pandas' and        *)
(* scipy's NaN.                                                            *)
(***************************************************************************)
HypTotals == {10, 12, 13, 15, 30}
HypRows == {Row(a, t, "1K") : a \in AREA_CODES, t \in HypTotals}
               \cup {Row("Shibuya", 10, "1K")}

Frac(n, d) == [nan |-> FALSE, num |-> n, den |-> d]
NaN == [nan |-> TRUE, num |-> 0, den |-> 1]

\* analyzer.py 53-54: df[df['area_name'] == a]['total']
TotalsOf(table, a) ==
    LET g == SelectSeq(table, LAMBDA r : r.area_name = a)
    IN  [i \in 1..Len(g) |-> g[i].total]

RECURSIVE SumSeq(_)
SumSeq(xs) == IF xs = <<>> THEN 0 ELSE xs[1] + SumSeq(Tail(xs))

SumSq(xs) == SumSeq([i \in 1..Len(xs) |-> xs[i] * xs[i]])

\* Series.mean(): NaN for an empty series
Mean(xs) == IF Len(xs) = 0 THEN NaN ELSE Frac(SumSeq(xs), Len(xs))

\* Series.std() squared (ddof = 1): NaN for fewer than two values
Var(xs) ==
    IF Len(xs) < 2 THEN NaN
    ELSE Frac(Len(xs) * SumSq(xs) - SumSeq(xs) * SumSeq(xs),
              Len(xs) * (Len(xs) - 1))

\* analyzer.py 63-64: (shinjuku_avg - setagaya_avg) / setagaya_avg * 100
DiffRate(a, b) ==
    IF a.nan \/ b.nan THEN NaN
    ELSE Frac(100 * (a.num * b.den - b.num * a.den), b.num * a.den)

\* analyzer.py 67: the square of the Welch statistic,
\*   (mean a - mean b)^2 / (var a / na + var b / nb)
WelchT2(xs, ys) ==
    LET na == Len(xs)
        nb == Len(ys)
        d  == SumSeq(xs) * nb - SumSeq(ys) * na
        se == Var(xs).num * nb * nb * (nb - 1) + Var(ys).num * na * na * (na - 1)
    IN  IF na < 2 \/ nb < 2 THEN [kind |-> "nan", num |-> 0, den |-> 1]
        ELSE IF se = 0
             THEN IF d = 0 THEN [kind |-> "nan", num |-> 0, den |-> 1]
                           ELSE [kind |-> "inf", num |-> 0, den |-> 1]
        ELSE [kind |-> "finite", num |-> d * d * (na - 1) * (nb - 1), den |-> se]

\* the answers "p_value < 0.05" can give for a squared statistic.  The
\* two-sided 5% critical value of Student's t lies between 1.96 (many
\* degrees of freedom) and 12.706 (one degree of freedom), and Welch's
\* degrees of freedom are at least 1: below 1.96^2 the test is not
\* significant, above 12.706^2 it is, in between it depends on the degrees
\* of freedom and either answer is allowed.
PBands(t2) ==
    CASE t2.kind = "nan" -> {"nan"}
      [] t2.kind = "inf" -> {"lt_0.05"}
      [] OTHER ->
            IF 100 * t2.num <= 384 * t2.den THEN {"ge_0.05"}
            ELSE IF t2.num >= 162 * t2.den THEN {"lt_0.05"}
            ELSE {"lt_0.05", "ge_0.05"}

\* analyzer.py 103, 132: the magnitude threshold, in percent
HypothesisThreshold == 30

\* analyzer.py 132: diff_rate >= 30 (a comparison with NaN is false)
AcceptedIfAlsoSignificant(diff_rate, p) ==
    ~diff_rate.nan /\ diff_rate.num >= HypothesisThreshold * diff_rate.den
                   /\ p = "lt_0.05"
Accepted(diff_rate, p) ==
    ~diff_rate.nan /\ diff_rate.num >= HypothesisThreshold * diff_rate.den

\* analyzer.py 120-135: the returned dict
HypResult(table, p) ==
    LET shinjuku == TotalsOf(table, "Shinjuku")
        setagaya == TotalsOf(table, "Setagaya")
        diff_rate == DiffRate(Mean(shinjuku), Mean(setagaya))
    IN  [kind |-> "result",
         high_avg |-> Mean(shinjuku), high_var |-> Var(shinjuku),
         low_avg |-> Mean(setagaya), low_var |-> Var(setagaya),
         diff_rate |-> diff_rate,
         t2 |-> WelchT2(shinjuku, setagaya),
         p_value |-> p,
         hypothesis_accepted |-> Accepted(diff_rate, p)]

NoHyp ==
    [kind |-> "pending", high_avg |-> NaN, high_var |-> NaN, low_avg |-> NaN,
     low_var |-> NaN, diff_rate |-> NaN,
     t2 |-> [kind |-> "nan", num |-> 0, den |-> 1], p_value |-> "nan",
     hypothesis_accepted |-> FALSE]

HypIdle == hpc = "idle" /\ hyp = NoHyp

\* PropertyAnalyzer.verify_hypothesis: it reads the table, computes and
\* returns; no statement of it raises for a small group
VerifyHypothesis(p) ==
    /\ hpc = "call"
    /\ p \in PBands(WelchT2(TotalsOf(rows, "Shinjuku"), TotalsOf(rows, "Setagaya")))
    /\ hyp' = HypResult(SelectAll(rows), p)
    /\ hpc' = "done"
    /\ UNCHANGED rows

(***************************************************************************)
(* PropertyDatabase.get_layout_stats.                                      *)
(***************************************************************************)
\* the layouts and rows of the tables get_layout_stats is run on
StatLayouts == {"", "1K", "2DK"}
StatRecords == {Row("Shinjuku", t, l) : t \in DbTotals, l \in StatLayouts}

\* database.py 190: WHERE layout != ''
where_layout(r) == r.layout # ""

\* database.py 192: HAVING COUNT(*) >= 5
HavingAnyCount(n) == n >= 1
having_count(n) == n >= 5

\* database.py 183-188: the row of one group: layout, COUNT(*), AVG(total)
\* as the fraction sum / count, MIN(total), MAX(total)
LayoutGroup(table, l) ==
    LET g == SelectSeq(table, LAMBDA r : where_layout(r) /\ r.layout = l)
        ts == {g[i].total : i \in 1..Len(g)}
    IN  [layout |-> l,
         count |-> Len(g),
         avg_rent |-> [num |-> SumSeq([i \in 1..Len(g) |-> g[i].total]), den |-> Len(g)],
         min_rent |-> CHOOSE t \in ts : \A u \in ts : t <= u,
         max_rent |-> CHOOSE t \in ts : \A u \in ts : t >= u]

\* database.py 189-192: GROUP BY layout of the rows that pass WHERE, the
\* groups that pass HAVING
LayoutGroups(table) ==
    LET ls == {table[i].layout : i \in {j \in 1..Len(table) : where_layout(table[j])}}
    IN  {gr \in {LayoutGroup(table, l) : l \in ls} : having_count(gr.count)}

\* database.py 193: ORDER BY avg_rent DESC; groups of equal average come in
\* any order
OrderedByAvgDesc(groups) ==
    {q \in [1..Cardinality(groups) -> groups] :
        /\ \A i, j \in 1..Cardinality(groups) : i # j => q[i] # q[j]
        /\ \A i, j \in 1..Cardinality(groups) :
               i < j => q[i].avg_rent.num * q[j].avg_rent.den
                           >= q[j].avg_rent.num * q[i].avg_rent.den}

\* PropertyDatabase.get_layout_stats
GetLayoutStats ==
    /\ \E q \in OrderedByAvgDesc(LayoutGroups(rows)) :
           db_ret' = DbRet("get_layout_stats", NoArgs, q, 0)
    /\ UNCHANGED <<rows, saved_since_clear>>

(***************************************************************************)
(* main: the run entry point.  The list scrape_multiple_areas returns is   *)
(* an input of the run; its records keep the columns the store reads.      *)
(***************************************************************************)
MainIdle == mainpc = "idle" /\ main_log = <<>> /\ main_properties = <<>>

\* main.py 34: if not properties
NeverStops(props) == FALSE
CollectedNothing(props) == props = <<>>

\* main.py 23-36: the collection, and the early return when it is empty
MainCollect(props) ==
    /\ mainpc = "collect"
    /\ main_properties' = props
    /\ main_log' = Append(main_log, "collect")
    /\ mainpc' = IF CollectedNothing(props) THEN "failed" ELSE "open"
    /\ UNCHANGED <<dbVars, hypVars>>

\* main.py 45: PropertyDatabase() creates the table only if it is missing
MainOpen ==
    /\ mainpc = "open"
    /\ main_log' = Append(main_log, "open")
    /\ mainpc' = "clear"
    /\ UNCHANGED <<main_properties, dbVars, hypVars>>

\* main.py 48: db.clear_all()
MainClear ==
    /\ mainpc = "clear"
    /\ ClearAll
    /\ main_log' = Append(main_log, "clear")
    /\ mainpc' = "save"
    /\ UNCHANGED <<main_properties, hypVars>>

\* main.py 51: db.save_properties(properties)
MainSave ==
    /\ mainpc = "save"
    /\ SaveProperties(main_properties)
    /\ main_log' = Append(main_log, "save")
    /\ mainpc' = "analyzer"
    /\ UNCHANGED <<main_properties, hypVars>>

\* main.py 57: PropertyAnalyzer(db)
MainAnalyzer ==
    /\ mainpc = "analyzer"
    /\ hpc' = "call"
    /\ main_log' = Append(main_log, "analyzer")
    /\ mainpc' = "verify"
    /\ UNCHANGED <<main_properties, dbVars, hyp>>

\* main.py 60: analyzer.verify_hypothesis()
MainVerify(p) ==
    /\ mainpc = "verify"
    /\ VerifyHypothesis(p)
    /\ main_log' = Append(main_log, "verify")
    /\ mainpc' = "plot"
    /\ UNCHANGED <<main_properties, db_ret, saved_since_clear>>

\* main.py 63: analyzer.plot_comparison() reads the table and writes two
\* image files; an error of the plotting library or of the file system is
\* not handled and ends the run
MainPlot(ok) ==
    /\ mainpc = "plot"
    /\ GetAllProperties
    /\ main_log' = Append(main_log, "plot")
    /\ mainpc' = IF ok THEN "summary" ELSE "raised"
    /\ UNCHANGED <<main_properties, hypVars>>

\* main.py 66-76: generate_summary(result) and the closing report
MainSummary ==
    /\ mainpc = "summary"
    /\ main_log' = Append(main_log, "summary")
    /\ mainpc' = "done"
    /\ UNCHANGED <<main_properties, dbVars, hypVars>>

(***************************************************************************)
(* Specifications.                                                         *)
(***************************************************************************)
\* nothing of main, scrape_multiple_areas or the single room is running
RestIdle ==
    /\ MainIdle
    /\ areas = <<>> /\ multi_pages = 0 /\ mpc = "idle" /\ calls = <<>>
    /\ all_properties = <<>>
    /\ room_price = <<>> /\ room_admin = <<>> /\ rpc = "idle" /\ room_out = Skip

\* scrape_area, one call
Init == ScrapeIdle /\ ParseIdle /\ DbIdle /\ HypIdle /\ RestIdle

Next ==
    \/ \E a \in AreaNames, n \in 0..MaxPages :
           ScrapeArea(a, n) /\ UNCHANGED <<parseVars, dbVars, hypVars, restVars>>
    \/ Sleep /\ UNCHANGED <<parseVars, dbVars, hypVars, restVars>>
    \/ \E o \in FetchFailures :
           RequestFails(o) /\ UNCHANGED <<parseVars, dbVars, hypVars, restVars>>
    \/ \E k \in 0..MaxCassettes :
           RequestOk(k) /\ UNCHANGED <<parseVars, dbVars, hypVars, restVars>>
    \/ \E title \in TitleTags, k \in 0..MaxRooms :
           Cassette(title, k) /\ UNCHANGED <<parseVars, dbVars, hypVars, restVars>>
    \/ \E price_tag \in PriceTags, admin_fee_tag \in AdminTags :
           Room(price_tag, admin_fee_tag) /\ UNCHANGED <<parseVars, dbVars, hypVars, restVars>>
    \/ Return /\ UNCHANGED <<parseVars, dbVars, hypVars, restVars>>

Spec == Init /\ [][Next]_vars

\* _extract_number on one text
InitP == InitParse /\ ScrapeIdle /\ DbIdle /\ HypIdle /\ RestIdle

NextP == ExtractNumber /\ UNCHANGED <<scrapeVars, dbVars, hypVars, restVars>>

SpecParse == InitP /\ [][NextP]_vars

\* the store: any sequence of its operations
InitD == DbIdle /\ ScrapeIdle /\ ParseIdle /\ HypIdle /\ RestIdle

NextD ==
    \/ \E records \in SeqsUpTo(DbRecords, MaxBatch) :
           SaveProperties(records) /\ UNCHANGED <<parseVars, scrapeVars, hypVars, restVars>>
    \/ ClearAll /\ UNCHANGED <<parseVars, scrapeVars, hypVars, restVars>>
    \/ GetCount /\ UNCHANGED <<parseVars, scrapeVars, hypVars, restVars>>
    \/ GetAllProperties /\ UNCHANGED <<parseVars, scrapeVars, hypVars, restVars>>
    \/ \E area \in AreaArgs, min_rent \in RentArgs, max_rent \in RentArgs,
          layout \in LayoutArgs :
           GetPropertiesByConditions(area, min_rent, max_rent, layout)
               /\ UNCHANGED <<parseVars, scrapeVars, hypVars, restVars>>

SpecDb == InitD /\ [][NextD]_vars

\* verify_hypothesis on every table of at most MaxHypRows rows
InitH ==
    /\ rows \in SeqsUpTo(HypRows, MaxHypRows)
    /\ db_ret = DbRet("none", NoArgs, <<>>, 0)
    /\ saved_since_clear = Len(rows)
    /\ hpc = "call"
    /\ hyp = NoHyp
    /\ ScrapeIdle /\ ParseIdle /\ RestIdle

NextH ==
    \E p \in {"nan", "lt_0.05", "ge_0.05"} :
        VerifyHypothesis(p)
            /\ UNCHANGED <<parseVars, scrapeVars, db_ret, saved_since_clear, restVars>>

SpecHyp == InitH /\ [][NextH]_vars

\* get_layout_stats on every table of at most MaxStatRows rows
InitS ==
    /\ rows \in SeqsUpTo(StatRecords, MaxStatRows)
    /\ db_ret = DbRet("none", NoArgs, <<>>, 0)
    /\ saved_since_clear = Len(rows)
    /\ ScrapeIdle /\ ParseIdle /\ HypIdle /\ RestIdle

NextS == GetLayoutStats /\ UNCHANGED <<parseVars, scrapeVars, hypVars, restVars>>

SpecStats == InitS /\ [][NextS]_vars

\* scrape_multiple_areas on every list of at most MaxAreas areas
InitA ==
    /\ areas \in SeqsUpTo(AreaNames, MaxAreas)
    /\ multi_pages \in 0..MaxPages
    /\ mpc = IF areas = <<>> THEN "summary" ELSE "loop"
    /\ calls = <<>>
    /\ all_properties = <<>>
    /\ MainIdle
    /\ room_price = <<>> /\ room_admin = <<>> /\ rpc = "idle" /\ room_out = Skip
    /\ ScrapeIdle /\ ParseIdle /\ DbIdle /\ HypIdle

NextA ==
    \/ \E props \in AnyAreaResults :
           MultiArea(props)
               /\ UNCHANGED <<parseVars, scrapeVars, dbVars, hypVars, mainVars, roomVars>>
    \/ MultiReturn
           /\ UNCHANGED <<parseVars, scrapeVars, dbVars, hypVars, mainVars, roomVars>>

SpecMulti == InitA /\ [][NextA]_vars

\* one room, for every rent element and fee element
InitR ==
    /\ room_price \in PriceTags
    /\ room_admin \in RoomAdminTags
    /\ rpc = "call"
    /\ room_out = Skip
    /\ MainIdle
    /\ areas = <<>> /\ multi_pages = 0 /\ mpc = "idle" /\ calls = <<>>
    /\ all_properties = <<>>
    /\ ScrapeIdle /\ ParseIdle /\ DbIdle /\ HypIdle

NextR ==
    ExtractRoom
        /\ UNCHANGED <<parseVars, scrapeVars, dbVars, hypVars, mainVars, multiVars>>

SpecRoom == InitR /\ [][NextR]_vars

\* main, one run, on a table an earlier run may have filled
InitM ==
    /\ rows \in SeqsUpTo(DbRecords, MaxOldRows)
    /\ db_ret = DbRet("none", NoArgs, <<>>, 0)
    /\ saved_since_clear = Len(rows)
    /\ HypIdle
    /\ mainpc = "collect" /\ main_log = <<>> /\ main_properties = <<>>
    /\ areas = <<>> /\ multi_pages = 0 /\ mpc = "idle" /\ calls = <<>>
    /\ all_properties = <<>>
    /\ room_price = <<>> /\ room_admin = <<>> /\ rpc = "idle" /\ room_out = Skip
    /\ ScrapeIdle /\ ParseIdle

NextM ==
    \/ \E props \in SeqsUpTo(DbRecords, MaxBatch) :
           MainCollect(props) /\ UNCHANGED <<parseVars, scrapeVars, multiVars, roomVars>>
    \/ MainOpen /\ UNCHANGED <<parseVars, scrapeVars, multiVars, roomVars>>
    \/ MainClear /\ UNCHANGED <<parseVars, scrapeVars, multiVars, roomVars>>
    \/ MainSave /\ UNCHANGED <<parseVars, scrapeVars, multiVars, roomVars>>
    \/ MainAnalyzer /\ UNCHANGED <<parseVars, scrapeVars, multiVars, roomVars>>
    \/ \E p \in {"nan", "lt_0.05", "ge_0.05"} :
           MainVerify(p) /\ UNCHANGED <<parseVars, scrapeVars, multiVars, roomVars>>
    \/ \E ok \in BOOLEAN :
           MainPlot(ok) /\ UNCHANGED <<parseVars, scrapeVars, multiVars, roomVars>>
    \/ MainSummary /\ UNCHANGED <<parseVars, scrapeVars, multiVars, roomVars>>

SpecMain == InitM /\ [][NextM]_vars

(***************************************************************************)
(* Properties of scrape_area (specification Spec).                         *)
(***************************************************************************)
\* the pages requested so far, in the order of the requests
Requested ==
    LET rq == SelectSeq(trace, LAMBDA e : e.ev = "request")
    IN  [i \in 1..Len(rq) |-> rq[i].page]

\* C1: in scrape_area every HTTP request is immediately preceded by the
\* 3-second delay of the same page, whatever the earlier pages' outcomes
\* were; so no two requests follow each other without a delay between them.
C1_DelayBeforeEveryRequest ==
    \A i \in 1..Len(trace) :
        trace[i].ev = "request" =>
            /\ i > 1
            /\ trace[i - 1].ev = "sleep"
            /\ trace[i - 1].secs = 3
            /\ trace[i - 1].page = trace[i].page

\* C1 witness: page 2 is requested, after its delay, although page 1 timed out
C1_Witness ==
    /\ Len(trace) = 4
    /\ outcomes[1] = "timeout"
    /\ trace[3] = Event("sleep", 2, 3)
    /\ trace[4].ev = "request" /\ trace[4].page = 2

\* C2, at every moment: the pages requested so far are 1, 2, ... in
\* ascending order, each once; and when the call has returned for a
\* supported area, every page 1..pages was requested and the list returned
\* is the list of the records appended.
C2_State ==
    /\ Requested = [i \in 1..Len(Requested) |-> i]
    /\ (spc = "returned" /\ area_name \in AREA_CODES) =>
           /\ Len(Requested) = pages
           /\ returned = properties

\* C2, at every step: a record once appended stays in the list, in place
C2_Step ==
    /\ Len(properties') >= Len(properties)
    /\ SubSeq(properties', 1, Len(properties)) = properties

\* C2: for every pattern of per-page outcomes each page 1..pages is
\* attempted exactly once, in ascending order, without retry; a failed page
\* does not stop the later pages; the returned list holds the records of
\* every page that succeeded.
C2_EveryPageOnceNoAbort == [][C2_Step]_vars /\ []C2_State

\* C2 witness: page 1 fails with a network error, page 2 succeeds, and the
\* call returns the record of page 2
C2_Witness ==
    /\ spc = "returned"
    /\ outcomes = <<"network_error", "ok">>
    /\ Len(returned) >= 1

\* d * 10^4 as an integer, for a decimal with at most four fractional digits
Scaled4(d) == d.m * Pow10(d.e + 4)

\* C3: every record appended by scrape_area has total = rent + admin_fee
\* and rent >= 10000.
C3_TotalAndRentFloor ==
    \A i \in 1..Len(properties) :
        /\ Scaled4(properties[i].total)
              = Scaled4(properties[i].rent) + Scaled4(properties[i].admin_fee)
        /\ Scaled4(properties[i].rent) >= 10000 * 10000

\* C3 witness: a record with a non-zero administration fee was appended
C3_Witness ==
    \E i \in 1..Len(properties) :
        /\ properties[i].admin_fee # Zero
        /\ properties[i].total # properties[i].rent

\* C11: scrape_area called with an area name that is not in the supported
\* set returns an empty list and does not raise, for every page count: once
\* called, the call has returned, the list returned is empty, and nothing
\* was slept, requested or appended on the way.
C11_UnsupportedAreaReturnsEmpty ==
    (spc # "idle" /\ area_name \notin AREA_CODES) =>
        /\ spc = "returned"
        /\ returned = <<>>
        /\ properties = <<>>
        /\ trace = <<>>

\* C11 witness: the call for an unsupported area and the largest page
\* count has returned the empty list
C11_Witness ==
    /\ spc = "returned"
    /\ area_name = "Shibuya"
    /\ pages = MaxPages
    /\ returned = <<>>

C16_EveryRecordNamed ==
    /\ \A i \in 1..Len(properties) : properties[i].name # <<>>
    /\ \A i \in 1..Len(returned) : returned[i].name # <<>>

(***************************************************************************)
(* Properties of scrape_multiple_areas (specification SpecMulti).          *)
(***************************************************************************)
\* the results of the calls made, one after the other
RECURSIVE Flatten(_)
Flatten(cs) == IF cs = <<>> THEN <<>> ELSE cs[1].props \o Flatten(Tail(cs))

\* C15: scrape_multiple_areas calls scrape_area once per listed area in the
\* listed order (with its own page count) and returns the concatenation of
\* the per-area results in that order; an area that yields zero records
\* does not stop the remaining areas from being collected.
C15_OncePerAreaInOrder ==
    /\ Len(calls) <= Len(areas)
    /\ \A i \in 1..Len(calls) :
           calls[i].area_name = areas[i] /\ calls[i].pages = multi_pages
    /\ all_properties = Flatten(calls)
    /\ mpc = "returned" => Len(calls) = Len(areas)

\* C15 witness: the first listed area is a supported one that yields no
\* record, the second yields records, and these are what is returned
C15_Witness ==
    /\ mpc = "returned"
    /\ Len(calls) = 2
    /\ calls[1].area_name \in AREA_CODES
    /\ calls[1].props = <<>>
    /\ calls[2].props # <<>>
    /\ all_properties = calls[2].props

(***************************************************************************)
(* Properties of one room (specification SpecRoom).                        *)
(***************************************************************************)
\* a rent element that reads 10,000 yen
ValidRent(t) ==
    t \in {<<"1", "man", "yen">>, <<"1", "0", ",", "0", "0", "0", "yen">>}

\* a fee element that is missing, is "-", or has no digit at all
NoFee(t) ==
    \/ t = NoTag
    \/ t = <<"-">>
    \/ \A i \in 1..Len(t) : t[i] \notin Digits

\* C17 (as claimed): a room with a valid rent whose admin-fee field is
\* missing, is "-", or contains no parseable number still yields a record,
\* with admin_fee equal to 0 and total equal to rent; admin_fee is never
\* negative in any record.
C17_NoFeeMeansZero ==
    rpc = "done" =>
        /\ (ValidRent(room_price) /\ NoFee(room_admin)) =>
               /\ room_out.kind = "record"
               /\ room_out.rec.admin_fee = Zero
               /\ room_out.rec.total = room_out.rec.rent
        /\ room_out.kind = "record" => room_out.rec.admin_fee.m >= 0

(***************************************************************************)
(* Properties of _extract_number (specification SpecParse).                *)
(***************************************************************************)
\* a price as one writes it: a numeral with optional thousands separators
\* (each followed by exactly three digits) and at most one decimal point,
\* then optionally the marker "man", then optionally the suffix "yen"
IsNumeral(b) ==
    /\ Len(b) >= 1
    /\ \A i \in 1..Len(b) : b[i] \in Digits \cup {",", "."}
    /\ b[1] \in Digits
    /\ b[Len(b)] \in Digits
    /\ Cardinality({i \in 1..Len(b) : b[i] = "."}) <= 1
    /\ \A i \in 1..Len(b) :
           b[i] = "," =>
               /\ i + 3 <= Len(b)
               /\ \A k \in (i + 1)..(i + 3) : b[k] \in Digits
               /\ (i + 4 <= Len(b) => b[i + 4] \notin Digits)
               /\ \A k \in 1..i : b[k] # "."

MoneyLike(s) ==
    \E n \in 1..Len(s) :
        /\ IsNumeral(SubSeq(s, 1, n))
        /\ SubSeq(s, n + 1, Len(s)) \in {<<>>, <<"man">>, <<"yen">>, <<"man", "yen">>}

\* the leading number of a money-like text, read as written up to the first
\* character that is no digit and no dot
LeadingNumber(s) == FloatVal(FirstRun(s))

\* the leading number of a money-like text, its thousands separators ignored
LeadingNumberNoSeparators(s) == FloatVal(FirstRun(Remove(s, ",")))

\* C4 (as claimed): for every money-like text that contains "man",
\* _extract_number returns the leading decimal number of the text times
\* 10000 (with either reading of "leading number").
C4_LeadingNumberTimes10000 ==
    (ppc = "done" /\ MoneyLike(text) /\ Contains(text, "man")) =>
        \/ result = Times10000(Float(LeadingNumber(text)))
        \/ result = Times10000(Float(LeadingNumberNoSeparators(text)))

\* C5 (as claimed): for every text without "man", _extract_number returns
\* the first decimal number of the text stripped of ',' and "yen" when the
\* text has digits, and returns None, raising nothing, when it has none.
C5_FirstNumberOrNone ==
    (ppc = "done" /\ ~Contains(text, "man")) =>
        /\ result.kind # "ValueError"
        /\ (\A i \in 1..Len(text) : text[i] \notin Digits) => result = None
        /\ (MoneyLike(text) =>
               result = Float(LeadingNumberNoSeparators(text)))

(***************************************************************************)
(* Properties of PropertyDatabase (specification SpecDb).                  *)
(***************************************************************************)
\* C6 (as claimed): get_properties_by_conditions(min_rent=X, max_rent=Y)
\* returns exactly the stored rows with X <= total <= Y, for every X and Y
\* including 0.
C6_RentBoundsInclusive ==
    ( /\ db_ret.op = "get_properties_by_conditions"
      /\ ~IsGiven(db_ret.args.area) /\ ~IsGiven(db_ret.args.layout)
      /\ IsGiven(db_ret.args.min_rent) /\ IsGiven(db_ret.args.max_rent) ) =>
        db_ret.rs = SelectSeq(rows, LAMBDA r :
                        /\ db_ret.args.min_rent.v <= r.total
                        /\ r.total <= db_ret.args.max_rent.v)

\* C7 (as claimed): get_properties_by_conditions returns the stored rows
\* that satisfy the conjunction of exactly the conditions supplied; with no
\* argument supplied that is every row.
C7_ExactlySuppliedConditions ==
    db_ret.op = "get_properties_by_conditions" =>
        db_ret.rs = SelectSeq(rows, LAMBDA r :
            /\ (IsGiven(db_ret.args.area) => r.area_name = db_ret.args.area.v)
            /\ (IsGiven(db_ret.args.min_rent) => r.total >= db_ret.args.min_rent.v)
            /\ (IsGiven(db_ret.args.max_rent) => r.total <= db_ret.args.max_rent.v)
            /\ (IsGiven(db_ret.args.layout) => r.layout = db_ret.args.layout.v))

\* C8: get_count is the number of records given to save_properties since
\* the last clear_all; save_properties(records) returns len(records);
\* get_count is 0 right after clear_all.
C8_CountIsSavedSinceClear ==
    /\ Count(rows) = saved_since_clear
    /\ db_ret.op = "save_properties" => db_ret.n = Len(db_ret.rs)
    /\ db_ret.op = "get_count" => db_ret.n = saved_since_clear
    /\ db_ret.op = "clear_all" => Count(rows) = 0

\* C8 witness: the same one-record list saved twice: two equal rows
C8_Witness ==
    /\ db_ret.op = "save_properties"
    /\ db_ret.n = 1
    /\ Count(rows) = 2
    /\ rows[1] = rows[2]
    /\ rows[2] = db_ret.rs[1]

(***************************************************************************)
(* Properties of get_layout_stats (specification SpecStats).               *)
(***************************************************************************)
\* the number of stored rows of a layout
RowsOfLayout(l) == Cardinality({i \in 1..Len(rows) : rows[i].layout = l})

\* C13: for every content of the store, get_layout_stats returns no group
\* with count < 5 and no group for the empty layout; every non-empty layout
\* with at least 5 rows is returned, once, with its count.
C13_LayoutGroupsOfFiveOrMore ==
    db_ret.op = "get_layout_stats" =>
        /\ \A i \in 1..Len(db_ret.rs) :
               /\ db_ret.rs[i].count >= 5
               /\ db_ret.rs[i].layout # ""
               /\ db_ret.rs[i].count = RowsOfLayout(db_ret.rs[i].layout)
        /\ \A l \in StatLayouts \ {""} :
               RowsOfLayout(l) >= 5 =>
                   Cardinality({i \in 1..Len(db_ret.rs) :
                       /\ db_ret.rs[i].layout = l
                       /\ db_ret.rs[i].count = RowsOfLayout(l)}) = 1

\* C13 witness: five rows of one layout and a sixth row of another: the
\* answer is the one group of five
C13_Witness ==
    /\ db_ret.op = "get_layout_stats"
    /\ RowsOfLayout("1K") = 5
    /\ RowsOfLayout("2DK") = 1
    /\ Len(db_ret.rs) = 1
    /\ db_ret.rs[1].layout = "1K"
    /\ db_ret.rs[1].count = 5

(***************************************************************************)
(* Properties of verify_hypothesis (specification SpecHyp).                *)
(***************************************************************************)
ShinjukuTotals == TotalsOf(rows, "Shinjuku")
SetagayaTotals == TotalsOf(rows, "Setagaya")

\* C9: hypothesis_accepted is true exactly when the Shinjuku mean is at
\* least 30% above the Setagaya mean, whatever the p-value; means 15 and 10
\* (times 10,000 yen) give 50% and accepted, means 12 and 10 not accepted.
C9_AcceptedIffThirtyPercent ==
    hpc = "done" =>
        LET sa == SumSeq(ShinjukuTotals)
            na == Len(ShinjukuTotals)
            sb == SumSeq(SetagayaTotals)
            nb == Len(SetagayaTotals)
        IN  /\ hyp.hypothesis_accepted <=>
                  (na > 0 /\ nb > 0 /\ 10 * sa * nb >= 13 * sb * na)
            /\ (na > 0 /\ nb > 0 /\ sa = 15 * na /\ sb = 10 * nb) =>
                  /\ hyp.diff_rate.num = 50 * hyp.diff_rate.den
                  /\ hyp.hypothesis_accepted
            /\ (na > 0 /\ nb > 0 /\ sa = 12 * na /\ sb = 10 * nb) =>
                  ~hyp.hypothesis_accepted

\* C9 witness: a result accepted (100% above) and surely not significant
\* (|t| < 1.96)
C9_Witness ==
    /\ hpc = "done"
    /\ hyp.hypothesis_accepted
    /\ hyp.t2.kind = "finite"
    /\ 100 * hyp.t2.num <= 384 * hyp.t2.den
    /\ hyp.p_value = "ge_0.05"

\* C10 (as claimed): with fewer than 2 records in either group
\* verify_hypothesis fails with an error and returns no result record.
C10_SmallGroupIsAnError ==
    (hpc = "done" /\ (Len(ShinjukuTotals) < 2 \/ Len(SetagayaTotals) < 2)) =>
        hyp.kind = "error"

(***************************************************************************)
(* Properties of main (specification SpecMain).                            *)
(***************************************************************************)
\* the statements of main, in the order of the source
MainSteps ==
    <<"collect", "open", "clear", "save", "analyzer", "verify", "plot", "summary">>

\* C12, at every moment: the statements executed so far are an initial part
\* of collect, open, clear, persist, analyze, report; the table is empty
\* right after the clear and holds exactly the collected records from the
\* persist on; the analysis is the one of the collected records; and when
\* the collection was empty the run has stopped right after it, with no
\* store operation called and no analysis run.
C12_State ==
    /\ main_log = SubSeq(MainSteps, 1, Len(main_log))
    /\ (main_log # <<>> /\ main_properties = <<>>) =>
           /\ main_log = <<"collect">>
           /\ mainpc = "failed"
           /\ db_ret.op = "none"
           /\ hpc = "idle" /\ hyp = NoHyp
    /\ Len(main_log) < 3 => db_ret.op = "none"
    /\ Len(main_log) = 3 => rows = <<>>
    /\ Len(main_log) >= 4 => rows = main_properties
    /\ (hpc = "done") <=> (Len(main_log) >= 6)
    /\ hpc = "done" => hyp = HypResult(main_properties, hyp.p_value)

\* C12, at every step: the table changes only in the clear and the persist
\* of a run that collected something, the store answers only from the
\* clear on, and the analysis result is set only by the analysis step
C12_Step ==
    /\ rows' # rows => (Len(main_log') \in {3, 4} /\ main_properties # <<>>)
    /\ db_ret' # db_ret => Len(main_log') >= 3
    /\ hyp' # hyp => Len(main_log') = 6

\* C12: the run entry point performs its steps in the fixed order collect,
\* clear store, persist, analyze, report; when collection yields zero
\* records the run stops before any store operation happens (the store is
\* neither opened, cleared nor written) and no analysis is run.
C12_FixedOrderAndEarlyStop == [][C12_Step]_vars /\ []C12_State

\* C12 witness: a complete run on a table that held an older row: all
\* statements executed, the table holds the collected records only
C12_Witness ==
    /\ mainpc = "done"
    /\ main_log = MainSteps
    /\ Len(main_properties) = MaxBatch
    /\ rows = main_properties
    /\ saved_since_clear = Len(main_properties)
    /\ hyp.kind = "result"

====
